---- MODULE Spec2Model ----
(***************************************************************************)
(* Model of src/modules/llms/store-models.ts: the zustand store of model   *)
(* sources and models (useModelsStore), the helper findUniqueSourceId, the *)
(* joined read useJoinedLLMs, and the static persona table SystemPurposes. *)
(*                                                                         *)
(* Every store operation is one call of zustand's set(), which replaces    *)
(* the named fields in one step; JavaScript runs each callback to          *)
(* completion, so one operation is one action.                             *)
(***************************************************************************)
EXTENDS Integers, Sequences, FiniteSets, TLC

VARIABLES
  llms,     \* ModelsStore.llms: sequence of DLLM records
  sources,  \* ModelsStore.sources: sequence of DModelSource records
  last,     \* history: the latest store operation, its arguments, and the
            \* lengths of llms and sources just before it ran
  joined,   \* what useJoinedLLMs returned for the current store state, if a
            \* reader has called it since the latest mutation
  find,     \* the running call of findUniqueSourceId: arguments and locals
  SystemPurposes, \* the exported table of personas, keyed by identifier
  storage,  \* what the persist middleware holds under the name 'app-models':
            \* <<>> when nothing was written, else <<the item>>
  uidsAdded \* history, kept where a property needs it: the uids of all
            \* models ever passed to addLLMs

vars == <<llms, sources, last, joined, find, SystemPurposes, storage, uidsAdded>>

----------------------------------------------------------------------------
(* Bounds of the model. *)

MaxLLMs == 3
MaxSources == 2

----------------------------------------------------------------------------
(* Input values. A DLLM is modelled by uid, _sourceId and label (the other *)
(* fields are carried along untouched by every operation). A DModelSource  *)
(* has id, label, vendorId and, optionally, setup: the record has no setup *)
(* field when the property is absent.                                      *)

Vendors == {"openai", "localai"}

\* the value of modelSource?.vendorId ?? null when there is no source; no
\* ModelVendorId is this string
null == "<null>"

M1  == [uid |-> "u1", _sourceId |-> "openai",  label |-> "GPT-4"]
M1b == [uid |-> "u1", _sourceId |-> "localai", label |-> "GPT-4 (local)"]
M2  == [uid |-> "u2", _sourceId |-> "localai", label |-> "Llama"]
M3  == [uid |-> "u3", _sourceId |-> "openai",  label |-> "GPT-3.5"]

ModelInputs == {M1, M1b, M2, M3}

\* arguments of addLLMs: the empty batch, every single model, and pairs with
\* distinct uids, with one uid twice, and with one model twice
Batches ==
  { <<>>, <<M1>>, <<M1b>>, <<M2>>, <<M3>>,
    <<M2, M3>>, <<M3, M1b>>, <<M1, M1b>>, <<M2, M2>> }

\* arguments of removeLLM; no model has uid u4
Uids == {"u1", "u2", "u4"}

\* sources as a caller may pass them to addSource: S3 repeats the id of S1
\* with another label and vendor
SourceInputs ==
  { [id |-> "openai",  label |-> "OpenAI",  vendorId |-> "openai"],
    [id |-> "localai", label |-> "LocalAI", vendorId |-> "localai"],
    [id |-> "openai",  label |-> "Unknown", vendorId |-> "localai"] }

\* arguments of removeSource and updateSourceSetup
SourceIds == {"openai", "localai"}

\* setup values are nested objects
V1 == [x |-> 1]
V2 == [y |-> 2]

\* Partial<T> arguments of updateSourceSetup; <<>> is the empty object {}
MainPartials == { [a |-> V1] }
SetupPartials == { <<>>, [a |-> V1], [a |-> V2], [b |-> V2], [a |-> V2, b |-> V1] }

RECURSIVE SeqsUpTo(_, _)
SeqsUpTo(S, n) ==
  IF n = 0 THEN { <<>> }
  ELSE LET shorter == SeqsUpTo(S, n - 1)
       IN  shorter \cup { Append(s, e) : s \in { t \in shorter : Len(t) = n - 1 }, e \in S }

----------------------------------------------------------------------------
(* JavaScript helpers. *)

\* a search from the end (findLast)
RECURSIVE findSource_last(_, _)
findSource_last(srcs, id) ==
  IF srcs = <<>> THEN <<>>
  ELSE IF srcs[Len(srcs)].id = id THEN << srcs[Len(srcs)] >>
       ELSE findSource_last(SubSeq(srcs, 1, Len(srcs) - 1), id)

\* Array.prototype.find on sources by id: <<the first match>>, or <<>> for
\* undefined
RECURSIVE findSource(_, _)
findSource(srcs, id) ==
  IF srcs = <<>> THEN <<>>
  ELSE IF Head(srcs).id = id THEN << Head(srcs) >>
       ELSE findSource(Tail(srcs), id)

\* models.find((m) => m.uid === uid) is truthy
hasUid(models, uid) == \E i \in DOMAIN models : models[i].uid = uid

\* { ...source.setup }: spreading undefined gives no properties
spreadSetup(source) == IF "setup" \in DOMAIN source THEN source.setup ELSE <<>>

----------------------------------------------------------------------------
(* The new field values each operation hands to set().                     *)

\* the batch put in front of the kept models
addLLMs_prepend(state_llms, models) ==
  LET keep(model) == ~hasUid(models, model.uid)
  IN  models \o SelectSeq(state_llms, keep)

\* the batch appended without removing anything
addLLMs_noFilter(state_llms, models) == state_llms \o models

\* only the models with the uid of the batch's first model removed
addLLMs_firstOnly(state_llms, models) ==
  LET keep(model) == models = <<>> \/ model.uid # models[1].uid
  IN  SelectSeq(state_llms, keep) \o models

\* llms: state.llms.filter(model => !models.find((m) => m.uid === model.uid)).concat(models)
addLLMs_llms(state_llms, models) ==
  LET keep(model) == ~hasUid(models, model.uid)
  IN  SelectSeq(state_llms, keep) \o models

\* a removal by index that does not test for -1
removeLLM_splice(state_llms, uid) ==
  LET hits == { i \in DOMAIN state_llms : state_llms[i].uid = uid }
      keep(model) == model.uid # uid
  IN  IF hits = {} THEN SubSeq(state_llms, 1, Len(state_llms) - 1)
      ELSE SelectSeq(state_llms, keep)

\* llms: state.llms.filter((model) => model.uid !== uid)
removeLLM_llms(state_llms, uid) ==
  LET keep(model) == model.uid # uid
  IN  SelectSeq(state_llms, keep)

\* a source with the same id replaced instead of kept
addSource_dedupe(state_sources, source) ==
  LET keep(other) == other.id # source.id
  IN  Append(SelectSeq(state_sources, keep), source)

\* sources: [...state.sources, source]
addSource_sources(state_sources, source) == Append(state_sources, source)

\* sources compared by vendorId instead of id
removeSource_byVendor(state_sources, sourceId) ==
  LET keep(source) == source.id # sourceId /\ source.vendorId # sourceId
  IN  SelectSeq(state_sources, keep)

\* the source left in place
removeSource_sourcesKept(state_sources, sourceId) == state_sources

\* sources: state.sources.filter((source) => source.id !== sourceId)
removeSource_sources(state_sources, sourceId) ==
  LET keep(source) == source.id # sourceId
  IN  SelectSeq(state_sources, keep)

\* only the first dependent model removed
removeSource_llmsFirstOnly(state_llms, sourceId) ==
  LET hits == { i \in DOMAIN state_llms : state_llms[i]._sourceId = sourceId }
  IN  IF hits = {} THEN state_llms
      ELSE LET i == CHOOSE h \in hits : \A g \in hits : h <= g
           IN  SubSeq(state_llms, 1, i - 1) \o SubSeq(state_llms, i + 1, Len(state_llms))

\* llms: state.llms.filter((model) => model._sourceId !== sourceId)
removeSource_llms(state_llms, sourceId) ==
  LET keep(model) == model._sourceId # sourceId
  IN  SelectSeq(state_llms, keep)

\* the source rebuilt from its setup alone, without ...source
updateSourceSetup_noSpread(state_sources, sourceId, setup) ==
  [ i \in DOMAIN state_sources |->
      IF state_sources[i].id = sourceId
        THEN [s \in {"setup"} |-> setup @@ spreadSetup(state_sources[i])]
             @@ [id |-> state_sources[i].id]
        ELSE state_sources[i] ]

\* setup replaced, not merged
updateSourceSetup_replace(state_sources, sourceId, setup) ==
  [ i \in DOMAIN state_sources |->
      IF state_sources[i].id = sourceId
        THEN [s \in {"setup"} |-> setup] @@ state_sources[i]
        ELSE state_sources[i] ]

\* sources: state.sources.map(source => source.id === sourceId
\*            ? { ...source, setup: { ...source.setup, ...setup } } : source)
updateSourceSetup_sources(state_sources, sourceId, setup) ==
  [ i \in DOMAIN state_sources |->
      IF state_sources[i].id = sourceId
        THEN [s \in {"setup"} |-> setup @@ spreadSetup(state_sources[i])] @@ state_sources[i]
        ELSE state_sources[i] ]

\* llms.map(model => { modelSource = sources.find(...); return {...} })
useJoinedLLMs_tuples(state_llms, state_sources) ==
  [ i \in DOMAIN state_llms |->
      LET model == state_llms[i]
          modelSource == findSource(state_sources, model._sourceId)
      IN  [ model       |-> model,
            sourceLabel |-> IF modelSource = <<>> THEN "Unknown" ELSE modelSource[1].label,
            vendorId    |-> IF modelSource = <<>> THEN null ELSE modelSource[1].vendorId ] ]

----------------------------------------------------------------------------
(* findUniqueSourceId.                                                     *)

\* `${vendorId}-${count}`
templateId(vendorId, count) == vendorId \o "-" \o ToString(count)

hasId(otherSources, id) == \E i \in DOMAIN otherSources : otherSources[i].id = id

\* an id numbered by the size of the collection instead of by search
findUniqueSourceId_byLength(vendorId, otherSources) ==
  IF otherSources = <<>> THEN [id |-> vendorId, count |-> 0]
  ELSE [id |-> templateId(vendorId, Len(otherSources)), count |-> Len(otherSources)]

\* the id formatted before the counter is incremented
findUniqueSourceId_bodyStale(vendorId, count) ==
  [count |-> count + 1, id |-> templateId(vendorId, count)]

\* the counter stepped by two
findUniqueSourceId_bodySkip(vendorId, count) ==
  [count |-> count + 2, id |-> templateId(vendorId, count + 2)]

\* the loop body: count++; id = `${vendorId}-${count}`
findUniqueSourceId_body(vendorId, count) ==
  [count |-> count + 1, id |-> templateId(vendorId, count + 1)]

\* the loop of findUniqueSourceId, entered with the locals id and count
RECURSIVE findUniqueSourceId_while(_, _, _, _)
findUniqueSourceId_while(vendorId, otherSources, id, count) ==
  IF hasId(otherSources, id)
    THEN LET locals == findUniqueSourceId_body(vendorId, count)
         IN  findUniqueSourceId_while(vendorId, otherSources, locals.id, locals.count)
    ELSE [id |-> id, count |-> count]

findUniqueSourceId(vendorId, otherSources) ==
  findUniqueSourceId_while(vendorId, otherSources, vendorId, 0)

----------------------------------------------------------------------------
(* The persona table.                                                      *)

SystemPurposeId ==
  {"Catalyst", "Custom", "Designer", "Developer", "DeveloperPreview", "Executive",
   "Generic", "Scientist"}

defaultSystemPurposeId == "Generic"

\* the object literal assigned to SystemPurposes: its keys, each with its
\* title
SystemPurposes_literal ==
  [ DeveloperPreview |-> [title |-> "Developer"],
    Developer        |-> [title |-> "Dev"],
    Scientist        |-> [title |-> "Scientist"],
    Catalyst         |-> [title |-> "Catalyst"],
    Executive        |-> [title |-> "Executive"],
    Artist           |-> [title |-> "Artist"],
    Generic          |-> [title |-> "Default"],
    Custom           |-> [title |-> "Custom"] ]

----------------------------------------------------------------------------
(* Persistence: persist(..., { name: 'app-models', onRehydrateStorage }).  *)

\* the item the middleware writes after a set(): the state without its
\* functions, and the version
persistItem(state_llms, state_sources) ==
  << [state |-> [llms |-> state_llms, sources |-> state_sources], version |-> 0] >>

\* the line that is commented out in the hook, put back
onRehydrateStorage_prune(state) ==
  LET known(llm) == \E i \in DOMAIN state.sources : state.sources[i].id = llm._sourceId
  IN  [state EXCEPT !.llms = SelectSeq(state.llms, known)]

\* onRehydrateStorage: () => (state) => { if (state) { /* nothing */ } }
onRehydrateStorage(state) == state

----------------------------------------------------------------------------
(* State.                                                                  *)

NotRendered == [rendered |-> FALSE]

FindIdle == [pc |-> "idle"]

before == [llms |-> Len(llms), sources |-> Len(sources)]

Init ==
  /\ llms = <<>>
  /\ sources = <<>>
  /\ last = [op |-> "init"]
  /\ joined = NotRendered
  /\ find = FindIdle
  /\ SystemPurposes = SystemPurposes_literal
  /\ storage = <<>>
  /\ uidsAdded = {}

----------------------------------------------------------------------------
(* Store operations.                                                       *)

addLLMs(models) ==
  /\ Len(addLLMs_llms(llms, models)) <= MaxLLMs
  /\ llms' = addLLMs_llms(llms, models)
  /\ storage' = persistItem(addLLMs_llms(llms, models), sources)
  /\ last' = [op |-> "addLLMs", models |-> models, before |-> before,
              again |-> IF last.op = "addLLMs" THEN last.models = models ELSE FALSE]
  /\ joined' = NotRendered
  /\ UNCHANGED <<sources, find, SystemPurposes>>

removeLLM(uid) ==
  /\ llms' = removeLLM_llms(llms, uid)
  /\ storage' = persistItem(removeLLM_llms(llms, uid), sources)
  /\ last' = [op |-> "removeLLM", uid |-> uid, before |-> before]
  /\ joined' = NotRendered
  /\ UNCHANGED <<sources, find, SystemPurposes, uidsAdded>>

addSource(source) ==
  /\ Len(sources) < MaxSources
  /\ sources' = addSource_sources(sources, source)
  /\ storage' = persistItem(llms, addSource_sources(sources, source))
  /\ last' = [op |-> "addSource", source |-> source, before |-> before]
  /\ joined' = NotRendered
  /\ UNCHANGED <<llms, find, SystemPurposes, uidsAdded>>

removeSource(sourceId) ==
  /\ sources' = removeSource_sources(sources, sourceId)
  /\ llms' = removeSource_llms(llms, sourceId)
  /\ storage' = persistItem(removeSource_llms(llms, sourceId),
                            removeSource_sources(sources, sourceId))
  /\ last' = [op |-> "removeSource", sourceId |-> sourceId, before |-> before]
  /\ joined' = NotRendered
  /\ UNCHANGED <<find, SystemPurposes, uidsAdded>>

updateSourceSetup(sourceId, setup) ==
  /\ sources' = updateSourceSetup_sources(sources, sourceId, setup)
  /\ storage' = persistItem(llms, updateSourceSetup_sources(sources, sourceId, setup))
  /\ last' = [op |-> "updateSourceSetup", sourceId |-> sourceId, setup |-> setup,
              before |-> before]
  /\ joined' = NotRendered
  /\ UNCHANGED <<llms, find, SystemPurposes, uidsAdded>>

\* a reader calls useJoinedLLMs between two mutations
useJoinedLLMs ==
  /\ joined' = [rendered |-> TRUE, tuples |-> useJoinedLLMs_tuples(llms, sources)]
  /\ UNCHANGED <<llms, sources, last, find, SystemPurposes, storage, uidsAdded>>

Next ==
  \/ \E models \in Batches : addLLMs(models) /\ UNCHANGED uidsAdded
  \/ \E uid \in Uids : removeLLM(uid)
  \/ \E source \in SourceInputs : addSource(source)
  \/ \E sourceId \in SourceIds : removeSource(sourceId)
  \/ \E sourceId \in SourceIds, setup \in MainPartials : updateSourceSetup(sourceId, setup)
  \/ useJoinedLLMs

Spec == Init /\ [][Next]_vars

----------------------------------------------------------------------------
(* The store when every source id comes from findUniqueSourceId applied to *)
(* the store's current sources.                                            *)

vendorLabel(vendorId) == IF vendorId = "openai" THEN "OpenAI" ELSE "LocalAI"

\* ids findUniqueSourceId can produce while the store holds at most
\* MaxSources sources
UniqueSourceIds == Vendors \cup { templateId(v, n) : v \in Vendors, n \in 1..(MaxSources - 1) }

addSourceUnique(vendorId) ==
  addSource([ id       |-> findUniqueSourceId(vendorId, sources).id,
              label    |-> vendorLabel(vendorId),
              vendorId |-> vendorId ])

\* arguments of addLLMs here: the batches of at most one model
UniqueBatches == { models \in Batches : Len(models) <= 1 }

NextUnique ==
  \/ \E models \in UniqueBatches : addLLMs(models) /\ UNCHANGED uidsAdded
  \/ \E uid \in Uids : removeLLM(uid)
  \/ \E vendorId \in Vendors : addSourceUnique(vendorId)
  \/ \E sourceId \in UniqueSourceIds : removeSource(sourceId)
  \/ \E sourceId \in UniqueSourceIds, setup \in MainPartials : updateSourceSetup(sourceId, setup)

SpecUnique == Init /\ [][NextUnique]_vars

----------------------------------------------------------------------------
(* The sources alone, with a wider range of setup arguments.               *)

NextSetup ==
  \/ \E source \in SourceInputs : addSource(source)
  \/ \E sourceId \in SourceIds : removeSource(sourceId)
  \/ \E sourceId \in SourceIds, setup \in SetupPartials : updateSourceSetup(sourceId, setup)

SpecSetup == Init /\ [][NextSetup]_vars

----------------------------------------------------------------------------
(* One call of findUniqueSourceId, statement by statement, on arguments    *)
(* drawn from the collections of at most MaxSources sources.               *)

FindSourceInputs ==
  { [id |-> "openai",    label |-> "OpenAI",     vendorId |-> "openai"],
    [id |-> "openai-1",  label |-> "OpenAI #2",  vendorId |-> "openai"],
    [id |-> "openai-2",  label |-> "OpenAI #3",  vendorId |-> "openai"],
    [id |-> "localai",   label |-> "LocalAI",    vendorId |-> "localai"],
    [id |-> "localai-1", label |-> "LocalAI #2", vendorId |-> "localai"] }

\* let id = vendorId; let count = 0;
InitFind ==
  /\ llms = <<>>
  /\ sources = <<>>
  /\ last = [op |-> "init"]
  /\ joined = NotRendered
  /\ SystemPurposes = SystemPurposes_literal
  /\ storage = <<>>
  /\ uidsAdded = {}
  /\ \E vendorId \in Vendors, otherSources \in SeqsUpTo(FindSourceInputs, MaxSources) :
       find = [ pc |-> "while", vendorId |-> vendorId, otherSources |-> otherSources,
                id |-> vendorId, count |-> 0 ]

\* while (otherSources.find(source => source.id === id)) { count++; id = ... }
FindWhile ==
  /\ find.pc = "while"
  /\ hasId(find.otherSources, find.id)
  /\ LET locals == findUniqueSourceId_body(find.vendorId, find.count)
     IN  find' = [find EXCEPT !.count = locals.count, !.id = locals.id]
  /\ UNCHANGED <<llms, sources, last, joined, SystemPurposes, storage, uidsAdded>>

\* return { id, count };
FindReturn ==
  /\ find.pc = "while"
  /\ ~hasId(find.otherSources, find.id)
  /\ find' = [find EXCEPT !.pc = "return"]
  /\ UNCHANGED <<llms, sources, last, joined, SystemPurposes, storage, uidsAdded>>

NextFind == FindWhile \/ FindReturn

SpecFind == InitFind /\ [][NextFind]_vars

----------------------------------------------------------------------------
(* The store with reloads: a new page starts from the initial state, the   *)
(* middleware merges the stored item over it and then calls the hook of    *)
(* onRehydrateStorage with the merged state.                               *)

rehydrate ==
  /\ LET merged == IF storage = <<>> THEN [llms |-> <<>>, sources |-> <<>>]
                   ELSE storage[1].state
         state == onRehydrateStorage(merged)
     IN  /\ llms' = state.llms
         /\ sources' = state.sources
  /\ last' = [op |-> "rehydrate", before |-> before]
  /\ joined' = NotRendered
  /\ UNCHANGED <<find, SystemPurposes, storage, uidsAdded>>

NextPersist ==
  \/ \E models \in Batches : addLLMs(models) /\ UNCHANGED uidsAdded
  \/ \E uid \in Uids : removeLLM(uid)
  \/ \E source \in SourceInputs : addSource(source)
  \/ \E sourceId \in SourceIds : removeSource(sourceId)
  \/ \E sourceId \in SourceIds, setup \in MainPartials : updateSourceSetup(sourceId, setup)
  \/ rehydrate

SpecPersist == Init /\ [][NextPersist]_vars

----------------------------------------------------------------------------
(* The store when addLLMs is only given models of sources that are         *)
(* registered at that moment.                                              *)

addLLMsOfKnownSources(models) ==
  /\ \A k \in DOMAIN models : hasId(sources, models[k]._sourceId)
  /\ addLLMs(models)
  /\ UNCHANGED uidsAdded

NextIntegrity ==
  \/ \E models \in Batches : addLLMsOfKnownSources(models)
  \/ \E uid \in Uids : removeLLM(uid)
  \/ \E source \in SourceInputs : addSource(source)
  \/ \E sourceId \in SourceIds : removeSource(sourceId)
  \/ \E sourceId \in SourceIds, setup \in MainPartials : updateSourceSetup(sourceId, setup)

SpecIntegrity == Init /\ [][NextIntegrity]_vars

----------------------------------------------------------------------------
(* The models alone, when no batch holds one uid twice; the uids passed to *)
(* addLLMs are recorded.                                                   *)

DistinctBatches ==
  { models \in Batches :
      \A i, j \in DOMAIN models : i # j => models[i].uid # models[j].uid }

addLLMsDistinct(models) ==
  /\ addLLMs(models)
  /\ uidsAdded' = uidsAdded \cup { models[k].uid : k \in DOMAIN models }

NextDistinct ==
  \/ \E models \in DistinctBatches : addLLMsDistinct(models)
  \/ \E uid \in Uids : removeLLM(uid)
  \/ \E sourceId \in SourceIds : removeSource(sourceId)

SpecDistinct == Init /\ [][NextDistinct]_vars

----------------------------------------------------------------------------
(* One call of findUniqueSourceId that is run to its end: the call is      *)
(* synchronous, so its next statement is always executed.                  *)

SpecFindFair == SpecFind /\ WF_vars(NextFind)

----------------------------------------------------------------------------
(* Properties.                                                             *)

\* the step just taken is the mutation named op (each mutation records
\* itself in last and resets joined; the reader changes neither)
Mutated(op) == last'.op = op /\ ~joined'.rendered

SourceIdsOf(srcs) == { srcs[i].id : i \in DOMAIN srcs }

\* C1: after removeSource(x) no source has id x, no model has _sourceId x,
\* and the joined view computed from that state has no tuple whose model
\* has _sourceId x.
C1_RemoveSourceCascades ==
  last.op = "removeSource" =>
    LET x == last.sourceId
        view == useJoinedLLMs_tuples(llms, sources)
    IN  /\ \A i \in DOMAIN sources : sources[i].id # x
        /\ \A i \in DOMAIN llms : llms[i]._sourceId # x
        /\ \A i \in DOMAIN view : view[i].model._sourceId # x

\* removeSource took away a source and two models and left others behind
C1_Witness ==
  /\ last.op = "removeSource"
  /\ last.before.sources > Len(sources)
  /\ last.before.llms >= Len(llms) + 2
  /\ llms # <<>>
  /\ sources # <<>>

\* C2: a reader that calls useJoinedLLMs on a state produced by
\* removeSource(x) sees the source x and its dependent models gone together:
\* neither a tuple of a model with _sourceId x (source gone, model present)
\* nor a source x in the sources it looks up (models gone, source present).
C2_CascadeAtomicForReaders ==
  (joined.rendered /\ last.op = "removeSource") =>
    LET x == last.sourceId
    IN  /\ \A i \in DOMAIN joined.tuples : joined.tuples[i].model._sourceId # x
        /\ x \notin SourceIdsOf(sources)
        /\ Len(joined.tuples) = Len(llms)

\* a reader has read the state left by a removeSource that removed a source
\* and a dependent model
C2_Witness ==
  /\ joined.rendered
  /\ last.op = "removeSource"
  /\ last.before.sources > Len(sources)
  /\ last.before.llms > Len(llms)
  /\ joined.tuples # <<>>

\* C3: no two entries of llms have the same uid.
C3_UidUnique ==
  \A i, j \in DOMAIN llms : i # j => llms[i].uid # llms[j].uid

\* C4: after addLLMs(batch) llms ends with the batch in batch order; before
\* it stand exactly the earlier models whose uid is not a uid of the batch,
\* in their earlier relative order; a batch of one model m leaves exactly
\* one model with m.uid, and it is m.
C4_AddLLMsRemoveThenAppend ==
  [][ Mutated("addLLMs") =>
        LET batch == last'.models
            n == Len(llms') - Len(batch)
            survivors == { i \in DOMAIN llms : \A k \in DOMAIN batch : batch[k].uid # llms[i].uid }
        IN  /\ n >= 0
            /\ \A k \in DOMAIN batch : llms'[n + k] = batch[k]
            /\ \A i \in 1..n : \A k \in DOMAIN batch : llms'[i].uid # batch[k].uid
            /\ n = Cardinality(survivors)
            /\ \E f \in [1..n -> DOMAIN llms] :
                 /\ \A i, j \in 1..n : i < j => f[i] < f[j]
                 /\ \A i \in 1..n : llms'[i] = llms[f[i]]
            /\ Len(batch) = 1 =>
                 /\ Cardinality({ i \in DOMAIN llms' : llms'[i].uid = batch[1].uid }) = 1
                 /\ llms'[Len(llms')] = batch[1]
    ]_vars

\* addLLMs of one model replaced the model with its uid and kept two others
C4_Witness ==
  /\ last.op = "addLLMs"
  /\ last.models = <<M1b>>
  /\ last.before.llms = 3
  /\ llms = <<M2, M3, M1b>>

\* C5: with every source id taken from findUniqueSourceId on the current
\* sources, no two sources have the same id.
C5_SourceIdsUnique ==
  \A i, j \in DOMAIN sources : i # j => sources[i].id # sources[j].id

\* a numbered id outlived the plain one, which was then given out again
C5_Witness ==
  /\ Len(sources) = 2
  /\ sources[1].id = "openai-1"
  /\ sources[2].id = "openai"
  /\ last.op = "addSource"

\* C6: findUniqueSourceId returns an id no existing source has: vendorId
\* with count 0 when vendorId is free, otherwise vendorId-n with count n for
\* the smallest n >= 1 such that vendorId-n is free; for one source
\* 'openai' and vendor 'openai' that is {id: 'openai-1', count: 1}.
C6_FindUniqueSourceId ==
  find.pc = "return" =>
    LET taken == SourceIdsOf(find.otherSources)
        candidate(n) == IF n = 0 THEN find.vendorId
                        ELSE find.vendorId \o "-" \o ToString(n)
    IN  /\ find.id \notin taken
        /\ find.count >= 0
        /\ find.id = candidate(find.count)
        /\ \A n \in 0..(find.count - 1) : candidate(n) \in taken
        /\ (find.vendorId = "openai" /\ taken = {"openai"}) =>
             (find.id = "openai-1" /\ find.count = 1)

\* the call returned after two collisions
C6_Witness ==
  /\ find.pc = "return"
  /\ find.count = 2
  /\ find.id = "openai-2"

\* C7: updateSourceSetup(id, p) on an existing source leaves it with a setup
\* whose keys are those of the old setup (none when it was absent) and of p,
\* each key of p with p's value and every other key with its old value.
C7_SetupShallowOverlay ==
  [][ Mutated("updateSourceSetup") =>
        /\ DOMAIN sources' = DOMAIN sources
        /\ \A i \in DOMAIN sources :
             sources[i].id = last'.sourceId =>
               LET p == last'.setup
                   oldKeys == IF "setup" \in DOMAIN sources[i]
                              THEN DOMAIN sources[i].setup ELSE {}
               IN  /\ "setup" \in DOMAIN sources'[i]
                   /\ DOMAIN sources'[i].setup = oldKeys \cup DOMAIN p
                   /\ \A k \in DOMAIN p : sources'[i].setup[k] = p[k]
                   /\ \A k \in oldKeys \ DOMAIN p :
                        sources'[i].setup[k] = sources[i].setup[k]
    ]_vars

\* {a: V1} then {b: V2} gave {a: V1, b: V2}
C7_Witness ==
  /\ last.op = "updateSourceSetup"
  /\ last.setup = [b |-> V2]
  /\ \E i \in DOMAIN sources :
       /\ sources[i].id = last.sourceId
       /\ "setup" \in DOMAIN sources[i]
       /\ sources[i].setup = [a |-> V1, b |-> V2]

\* C8: the joined view has one tuple per model, in the order of llms; each
\* carries the label and vendorId of the first source whose id is the
\* model's _sourceId, and it carries 'Unknown' and null exactly when there
\* is no such source.
C8_JoinedView ==
  joined.rendered =>
    /\ Len(joined.tuples) = Len(llms)
    /\ \A i \in DOMAIN llms :
         LET t == joined.tuples[i]
             matches == { j \in DOMAIN sources : sources[j].id = llms[i]._sourceId }
         IN  /\ t.model = llms[i]
             /\ matches # {} =>
                  \E j \in matches :
                    /\ \A k \in matches : j <= k
                    /\ t.sourceLabel = sources[j].label
                    /\ t.vendorId = sources[j].vendorId
             /\ (t.sourceLabel = "Unknown" /\ t.vendorId = null) <=> matches = {}

\* a view with a dangling model and a model whose source id occurs twice
C8_Witness ==
  /\ joined.rendered
  /\ \E i \in DOMAIN joined.tuples : joined.tuples[i].vendorId = null
  /\ \E i \in DOMAIN joined.tuples :
       /\ joined.tuples[i].sourceLabel = "OpenAI"
       /\ Cardinality({ j \in DOMAIN sources : sources[j].id = "openai" }) = 2

\* C9: removeLLM, removeSource and updateSourceSetup can always be called,
\* and with an id that nothing in the store carries they leave llms and
\* sources as they were.
C9_MissingIdIsNoOp ==
  /\ [](/\ \A uid \in Uids : ENABLED removeLLM(uid)
        /\ \A sourceId \in SourceIds : ENABLED removeSource(sourceId)
        /\ \A sourceId \in SourceIds, setup \in MainPartials :
             ENABLED updateSourceSetup(sourceId, setup))
  /\ [][ /\ (Mutated("removeLLM") /\ \A i \in DOMAIN llms : llms[i].uid # last'.uid)
              => (llms' = llms /\ sources' = sources)
         /\ (/\ Mutated("removeSource")
             /\ \A i \in DOMAIN sources : sources[i].id # last'.sourceId
             /\ \A i \in DOMAIN llms : llms[i]._sourceId # last'.sourceId)
              => (llms' = llms /\ sources' = sources)
         /\ (Mutated("updateSourceSetup") /\ \A i \in DOMAIN sources : sources[i].id # last'.sourceId)
              => (llms' = llms /\ sources' = sources)
       ]_vars

\* removeLLM of a uid no model has, on a store that holds models
C9_Witness ==
  /\ last.op = "removeLLM"
  /\ last.uid = "u4"
  /\ last.before.llms = Len(llms)
  /\ Len(llms) >= 2
  /\ sources # <<>>

\* C10: the keys of the persona table are exactly the persona identifiers.
C10_CatalogTotal ==
  /\ DOMAIN SystemPurposes = SystemPurposeId
  /\ defaultSystemPurposeId \in DOMAIN SystemPurposes

\* new holds exactly the entries of old that satisfy Keep, in old's order:
\* the r-th entry of old that satisfies Keep is the r-th entry of new
KeptInOrder(old, new, Keep(_)) ==
  LET kept == { i \in DOMAIN old : Keep(old[i]) }
      rank(i) == Cardinality({ j \in kept : j <= i })
  IN  /\ Len(new) = Cardinality(kept)
      /\ \A i \in kept : new[rank(i)] = old[i]

\* C11: a reload restores llms and sources exactly as they were stored: the
\* hook prunes nothing, so a stored model whose _sourceId matches no stored
\* source is still there, and the store is the same after the reload as
\* before it.
C11_RestoreDoesNotPrune ==
  [][ Mutated("rehydrate") =>
        /\ storage # <<>> =>
             /\ llms' = storage[1].state.llms
             /\ sources' = storage[1].state.sources
        /\ llms' = llms
        /\ sources' = sources
        /\ \A i \in DOMAIN llms :
             llms[i]._sourceId \notin SourceIdsOf(sources) =>
               \E j \in DOMAIN llms' : llms'[j] = llms[i]
    ]_vars

\* a reload of a store that holds a source and a model of no source
C11_Witness ==
  /\ last.op = "rehydrate"
  /\ sources # <<>>
  /\ \E i \in DOMAIN llms : llms[i]._sourceId \notin SourceIdsOf(sources)

\* C12: addSource(s) makes sources the old sources followed by s, one entry
\* longer, also when a source with the id of s is already there, and leaves
\* llms as it was.
C12_AddSourceAppends ==
  [][ Mutated("addSource") =>
        /\ Len(sources') = Len(sources) + 1
        /\ \A i \in DOMAIN sources : sources'[i] = sources[i]
        /\ sources'[Len(sources')] = last'.source
        /\ llms' = llms
    ]_vars

\* addSource of an id that was present left two sources with that id
C12_Witness ==
  /\ last.op = "addSource"
  /\ Len(sources) = 2
  /\ last.before.sources = 1
  /\ sources[1].id = sources[2].id
  /\ sources[1] # sources[2]
  /\ llms # <<>>

\* C13: when addLLMs only inserts models of sources present at that moment,
\* every model's _sourceId is the id of some source.
C13_ReferentialIntegrity ==
  \A i \in DOMAIN llms : \E j \in DOMAIN sources : sources[j].id = llms[i]._sourceId

\* removeSource took away two sources that shared an id, and their models
C13_Witness ==
  /\ last.op = "removeSource"
  /\ last.before.sources = Len(sources) + 2
  /\ last.before.llms >= Len(llms) + 2

\* C14: removeSource(x) keeps every source whose id is not x and every model
\* whose _sourceId is not x, unmodified and in their earlier order, and
\* keeps nothing else.
C14_RemoveSourceFrame ==
  [][ Mutated("removeSource") =>
        LET x == last'.sourceId
            otherSource(source) == source.id # x
            otherModel(model) == model._sourceId # x
        IN  /\ KeptInOrder(sources, sources', otherSource)
            /\ KeptInOrder(llms, llms', otherModel)
    ]_vars

\* removeSource removed a source and a model and left a source and two models
C14_Witness ==
  /\ last.op = "removeSource"
  /\ last.before.sources = 2
  /\ Len(sources) = 1
  /\ last.before.llms = 3
  /\ Len(llms) = 2

\* C15: updateSourceSetup(id, p) leaves llms, the number and order of the
\* sources and every source with another id as they were; a source with
\* that id keeps its id, label and vendorId and gets no field but setup.
C15_UpdateSourceSetupFrame ==
  [][ Mutated("updateSourceSetup") =>
        /\ llms' = llms
        /\ Len(sources') = Len(sources)
        /\ \A i \in DOMAIN sources :
             IF sources[i].id = last'.sourceId
               THEN /\ DOMAIN sources'[i] = DOMAIN sources[i] \cup {"setup"}
                    /\ sources'[i].id = sources[i].id
                    /\ sources'[i].label = sources[i].label
                    /\ sources'[i].vendorId = sources[i].vendorId
               ELSE sources'[i] = sources[i]
    ]_vars

\* an update of one of two sources with different ids, with models stored
C15_Witness ==
  /\ last.op = "updateSourceSetup"
  /\ Len(sources) = 2
  /\ \E i \in DOMAIN sources :
       sources[i].id = last.sourceId /\ "setup" \in DOMAIN sources[i]
  /\ \E i \in DOMAIN sources :
       sources[i].id # last.sourceId /\ "setup" \notin DOMAIN sources[i]
  /\ llms # <<>>

\* C16: when no batch holds one uid twice, no two models share a uid and
\* there are never more models than distinct uids ever added.
C16_UidUniqueForDistinctBatches ==
  /\ \A i, j \in DOMAIN llms : llms[i].uid = llms[j].uid => i = j
  /\ Len(llms) <= Cardinality(uidsAdded)

\* a model was replaced while all three uids were stored
C16_Witness ==
  /\ last.op = "addLLMs"
  /\ Len(last.models) = 1
  /\ last.before.llms = 3
  /\ Len(llms) = 3
  /\ Cardinality(uidsAdded) = 3

\* C17: addLLMs(batch) applied right after addLLMs(batch) leaves llms and
\* sources as the first application left them.
C17_AddLLMsIdempotent ==
  [][ (Mutated("addLLMs") /\ last'.again) => (llms' = llms /\ sources' = sources) ]_vars

\* a batch with one uid twice was added twice in a row
C17_Witness ==
  /\ last.op = "addLLMs"
  /\ last.again
  /\ last.models = <<M1, M1b>>
  /\ Len(llms) = 3

\* C18: a call of findUniqueSourceId returns; its count never exceeds the
\* number of sources it was given; it changes neither its arguments nor the
\* store; and what it returns is a function of its arguments.
C18_FindTerminatesPure ==
  /\ <>(find.pc = "return")
  /\ [](find.count <= Len(find.otherSources))
  /\ [][ /\ find'.otherSources = find.otherSources
         /\ find'.vendorId = find.vendorId
         /\ llms' = llms
         /\ sources' = sources
         /\ storage' = storage ]_vars
  /\ [](find.pc = "return" =>
          [id |-> find.id, count |-> find.count]
            = findUniqueSourceId(find.vendorId, find.otherSources))

\* the call returned with as many collisions as it was given sources
C18_Witness ==
  /\ find.pc = "return"
  /\ find.id = "localai-2"
  /\ find.count = Len(find.otherSources)

====
